---- MODULE Spec2Model ----
(***************************************************************************)
(* Model of the session controller of the "Interprete Universel" client   *)
(* (App component): the transcript accumulator (handleTranscription,      *)
(* speakText), the playback scheduler inside the channel's onmessage      *)
(* callback, and the connect / disconnect lifecycle.                      *)
(*                                                                         *)
(* Texts and language tags are sequences of one-character strings, so     *)
(* that trim, toLowerCase, startsWith and split are computed, not assumed. *)
(* The value "undefined" of an optional string is the empty sequence: the *)
(* code tests these values for truthiness only.                            *)
(***************************************************************************)
EXTENDS Integers, Sequences, FiniteSets, TLC

\* ---------------------------------------------------------------- bounds
MaxBuf == 2        \* longest accumulation buffer explored
MaxItems == 2      \* longest finalized transcript list explored
MaxDate == 1       \* largest reading of the wall clock (Date.now)
MaxTime == 2       \* largest reading of an audio context's clock
MaxAudio == 2      \* inbound audio messages delivered in a run
MaxConnects == 1   \* calls of connectToGemini in a run
MaxSpeech == 1     \* utterances queued in the speech synthesizer
MaxBlocks == 2     \* capture blocks produced in a run
MaxErrors == 1     \* values handed to onerror in a run
MaxAttempts == 2   \* calls of connectToGemini in a run that connects again

\* ------------------------------------------------------- string helpers
Undefined == <<>>

UpperChars == <<"A","B","C","D","E","F","G","H","I","J","K","L","M",
                "N","O","P","Q","R","S","T","U","V","W","X","Y","Z">>

LowerChars == <<"a","b","c","d","e","f","g","h","i","j","k","l","m",
                "n","o","p","q","r","s","t","u","v","w","x","y","z">>

LowerChar(c) ==
  IF \E i \in 1..Len(UpperChars) : UpperChars[i] = c
  THEN LowerChars[CHOOSE i \in 1..Len(UpperChars) : UpperChars[i] = c]
  ELSE c

\* String.prototype.toLowerCase
ToLowerCase(s) == [i \in 1..Len(s) |-> LowerChar(s[i])]

\* String.prototype.startsWith
StartsWith(s, p) == Len(s) >= Len(p) /\ SubSeq(s, 1, Len(p)) = p

\* s.split('-')[0]
RECURSIVE SplitDashFirst(_)
SplitDashFirst(s) ==
  IF s = <<>> \/ Head(s) = "-" THEN <<>>
  ELSE <<Head(s)>> \o SplitDashFirst(Tail(s))

IsSpace(c) == c = " "

RECURSIVE TrimStart(_)
TrimStart(s) ==
  IF s # <<>> /\ IsSpace(Head(s)) THEN TrimStart(Tail(s)) ELSE s

RECURSIVE TrimEnd(_)
TrimEnd(s) ==
  IF s # <<>> /\ IsSpace(s[Len(s)]) THEN TrimEnd(SubSeq(s, 1, Len(s) - 1)) ELSE s

\* String.prototype.trim
Trim(s) == TrimEnd(TrimStart(s))

RECURSIVE Flatten(_)
Flatten(ss) == IF ss = <<>> THEN <<>> ELSE Head(ss) \o Flatten(Tail(ss))

IsPrefix(s, t) == Len(s) <= Len(t) /\ SubSeq(t, 1, Len(s)) = s

Max(a, b) == IF a >= b THEN a ELSE b

\* ------------------------------------------------------- language data
TagEnUS == <<"e","n","-","U","S">>
TagEsES == <<"e","s","-","E","S">>
TagEsMX == <<"e","s","-","M","X">>
TagFrFR == <<"f","r","-","F","R">>
\* Northern Frisian: a tag whose base code (frr) is not French
TagFrr == <<"f","r","r">>

\* language tags the remote channel may attach to an input transcription
Tags == {TagEsES, TagEsMX, TagFrFR, TagFrr}

\* the values of the settings panel's language selector that are explored
Targets == {"Auto", "Spanish"}

LANGUAGE_LOCALES(target) ==
  CASE target = "English" -> "en-US"
    [] target = "French" -> "fr-FR"
    [] target = "Spanish" -> "es-ES"
    [] target = "German" -> "de-DE"
    [] target = "Italian" -> "it-IT"
    [] target = "Chinese" -> "zh-CN"
    [] target = "Japanese" -> "ja-JP"
    [] target = "Arabic" -> "ar-SA"
    [] target = "Russian" -> "ru-RU"
    [] target = "Portuguese" -> "pt-PT"
    [] target = "Dutch" -> "nl-NL"
    [] OTHER -> "undefined"

mapLanguageCodeToLocale(shortCode) ==
  IF shortCode = Undefined THEN "undefined"
  ELSE LET base == ToLowerCase(SplitDashFirst(shortCode))
       IN CASE base = <<"e","n">> -> "en-US"
            [] base = <<"f","r">> -> "fr-FR"
            [] base = <<"e","s">> -> "es-ES"
            [] base = <<"d","e">> -> "de-DE"
            [] base = <<"i","t">> -> "it-IT"
            [] base = <<"z","h">> -> "zh-CN"
            [] base = <<"j","a">> -> "ja-JP"
            [] base = <<"a","r">> -> "ar-SA"
            [] base = <<"r","u">> -> "ru-RU"
            [] base = <<"p","t">> -> "pt-PT"
            [] base = <<"n","l">> -> "nl-NL"
            [] OTHER -> "undefined"

\* the tags for which code.toLowerCase().startsWith('fr') holds
FrenchCodes ==
  { code \in Tags \cup {Undefined, TagEnUS} :
      StartsWith(ToLowerCase(code), <<"f","r">>) }

IsFrenchCode(code) == code \in FrenchCodes

\* utterance.lang chosen by speakText
SpeakLang(isFrenchOutput, target, lastClient) ==
  IF isFrenchOutput THEN "fr-FR"
  ELSE IF target # "Auto" /\ LANGUAGE_LOCALES(target) # "undefined"
       THEN LANGUAGE_LOCALES(target)
       ELSE IF mapLanguageCodeToLocale(lastClient) # "undefined"
            THEN mapLanguageCodeToLocale(lastClient)
            ELSE "en-US"

\* ------------------------------------------------------------- messages
\* text fragments a transcription event may carry; <<>> is a missing or
\* empty text field
Fragments == {<<>>, <<" ">>, <<"a">>, <<"b">>}

\* durations of decoded audio buffers, in clock units
Durations == {1, 2}

NoMessage ==
  [hasIn |-> FALSE, inText |-> <<>>, inLang |-> Undefined,
   hasOut |-> FALSE, outText |-> <<>>, turnComplete |-> FALSE,
   audio |-> 0, decodable |-> TRUE, interrupted |-> FALSE]

\* serverContent.inputTranscription = {text, languageCode}
InputMsg(text, code, tc) ==
  [NoMessage EXCEPT !.hasIn = TRUE, !.inText = text, !.inLang = code,
                    !.turnComplete = tc]

\* serverContent.outputTranscription = {text}
OutputMsg(text, tc) ==
  [NoMessage EXCEPT !.hasOut = TRUE, !.outText = text, !.turnComplete = tc]

\* serverContent.turnComplete alone
TurnCompleteMsg == [NoMessage EXCEPT !.turnComplete = TRUE]

\* serverContent.interrupted alone
InterruptMsg == [NoMessage EXCEPT !.interrupted = TRUE]

\* serverContent.modelTurn with inline audio, with or without interrupted
AudioMsg(dur, ok, i) ==
  [NoMessage EXCEPT !.audio = dur, !.decodable = ok, !.interrupted = i]

\* messages that carry transcriptions and turnComplete
TextMsgs ==
  { InputMsg(t, l, tc) : t \in Fragments, l \in Tags \cup {Undefined}, tc \in BOOLEAN }
  \cup { OutputMsg(t, tc) : t \in Fragments, tc \in BOOLEAN }
  \cup { [InputMsg(t, l, tc) EXCEPT !.hasOut = TRUE, !.outText = u] :
           t \in Fragments, l \in Tags \cup {Undefined}, tc \in BOOLEAN,
           u \in Fragments }
  \cup { TurnCompleteMsg }

\* messages that carry audio and / or the interrupted flag
AudioMsgs ==
  { AudioMsg(d, TRUE, i) : d \in Durations, i \in BOOLEAN }
  \cup { AudioMsg(1, FALSE, i) : i \in BOOLEAN }
  \cup { InterruptMsg }

\* ---------------------------------------------------------------- state
Attempts == 1..MaxAttempts

VARIABLES
  \* transcript accumulator
  currentInputTrans,      \* currentInputTransRef
  currentOutputTrans,     \* currentOutputTransRef
  currentInputLanguage,   \* currentInputLanguageRef (Undefined or a tag)
  lastClientLanguage,     \* lastClientLanguageRef
  transcripts,            \* finalized TranscriptItems
  streamingUserText,
  streamingModelText,
  speechQueue,            \* utterances handed to window.speechSynthesis
  dateNow,                \* Date.now()
  turnLanguage,           \* history: the tag of the latest tagged partial input
                          \*          event since the last turn-complete
  turnAudio,              \* history: ids of the audio messages accepted for
                          \*          playback since the last turn-complete
  inputParts,             \* history: partial input texts since the last reset
  outputParts,            \* history: partial output texts since the last reset
  \* settings
  useBrowserTTS,          \* useBrowserTTSRef
  targetLanguage,         \* targetLanguageRef
  isOutputMuted,
  \* playback scheduler
  nextStartTime,          \* nextStartTimeRef (the cursor)
  sources,                \* sourcesRef: ids of the active buffer sources
  pending,                \* onmessage calls suspended in await decodeAudioData
  nAudio,                 \* inbound audio messages accepted so far
  started,                \* history: every source.start(), in order
  stopped,                \* history: ids of the sources stop() was called on
  flushed,                \* history: what reset the cursor since the last start
  clampMax,               \* history: largest clock reading the cursor was
                          \*          clamped to since the last start or reset
  preInterrupt,           \* history: ids of the messages whose decode was
                          \*          pending when an interruption was handled
  \* session lifecycle
  isConnected,
  audioLevel,             \* the level shown by the visualizer, in LevelOne-ths
  error,
  nConnects,              \* calls of connectToGemini so far
  errorLog,               \* history: kinds of the values handed to onerror
  conn,                   \* per call: where it stands and its closure
  discPc,                 \* where the running disconnect stands
  inputContextRef,
  audioContextRef,
  outputGainRef,
  outputAnalyserRef,
  sessionPromiseRef,
  inCtxState,             \* per call: state of the input AudioContext it made
  ctxState,               \* per call: state of the output AudioContext it made
  ctxTime,                \* per call: currentTime of that output AudioContext
  gain,                   \* per call: gain.value of the GainNode it made
  session,                \* per call: state of the live session it opened
  \* capture pipeline and level monitor
  inputAnalyserRef,
  streamRef,
  processorRef,
  animationFrameRef,      \* the call whose monitor loop requested the frame
  streamState,            \* per call: the microphone stream it acquired
  processor,              \* per call: the ScriptProcessorNode its onopen made
  monitor,                \* per call: the updateVolume loop it started
  promise,                \* per call: the promise live.connect returned
  queued,                 \* per call: chunks waiting in then() of that promise
  sent,                   \* per call: chunks handed to sendRealtimeInput
  nBlocks,                \* capture blocks produced so far
  dropped                 \* history: blocks whose chunk was never sent

tvars == <<currentInputTrans, currentOutputTrans, currentInputLanguage,
           lastClientLanguage, transcripts, streamingUserText,
           streamingModelText, dateNow, inputParts, outputParts,
           turnLanguage, turnAudio>>

setvars == <<useBrowserTTS, targetLanguage, isOutputMuted>>

svars == <<nextStartTime, sources, pending, nAudio, started, stopped, flushed,
           clampMax, preInterrupt>>

refvars == <<inputContextRef, audioContextRef, outputGainRef,
             outputAnalyserRef, sessionPromiseRef>>

objvars == <<inCtxState, ctxState, ctxTime, gain, session>>

lvars == <<isConnected, audioLevel, error, nConnects, errorLog, conn, discPc>>

cvars == <<inputAnalyserRef, streamRef, processorRef, animationFrameRef,
           streamState, processor, monitor, promise, queued, sent, nBlocks,
           dropped>>

vars == <<tvars, speechQueue, setvars, svars, refvars, objvars, lvars, cvars>>

Init ==
  /\ currentInputTrans = <<>>
  /\ currentOutputTrans = <<>>
  /\ currentInputLanguage = Undefined
  /\ lastClientLanguage = TagEnUS
  /\ transcripts = <<>>
  /\ streamingUserText = <<>>
  /\ streamingModelText = <<>>
  /\ speechQueue = <<>>
  /\ dateNow = 0
  /\ inputParts = <<>>
  /\ turnLanguage = Undefined
  /\ turnAudio = {}
  /\ outputParts = <<>>
  /\ useBrowserTTS = FALSE
  /\ targetLanguage = "Auto"
  /\ isOutputMuted = FALSE
  /\ nextStartTime = 0
  /\ sources = {}
  /\ pending = {}
  /\ nAudio = 0
  /\ started = <<>>
  /\ stopped = {}
  /\ flushed = "none"
  /\ clampMax = 0
  /\ preInterrupt = {}
  /\ isConnected = FALSE
  /\ audioLevel = 0
  /\ error = "null"
  /\ nConnects = 0
  /\ errorLog = <<>>
  /\ conn = [a \in Attempts |-> [pc |-> "none", muted |-> FALSE]]
  /\ discPc = "idle"
  /\ inputContextRef = 0
  /\ audioContextRef = 0
  /\ outputGainRef = 0
  /\ outputAnalyserRef = 0
  /\ sessionPromiseRef = 0
  /\ inCtxState = [a \in Attempts |-> "none"]
  /\ ctxState = [a \in Attempts |-> "none"]
  /\ ctxTime = [a \in Attempts |-> 0]
  /\ gain = [a \in Attempts |-> 1]
  /\ session = [a \in Attempts |-> "none"]
  /\ inputAnalyserRef = 0
  /\ streamRef = 0
  /\ processorRef = 0
  /\ animationFrameRef = 0
  /\ streamState = [a \in Attempts |-> "none"]
  /\ processor = [a \in Attempts |-> [state |-> "none", ctx |-> 0]]
  /\ monitor = [a \in Attempts |-> "none"]
  /\ promise = [a \in Attempts |-> "none"]
  /\ queued = [a \in Attempts |-> <<>>]
  /\ sent = [a \in Attempts |-> <<>>]
  /\ nBlocks = 0
  /\ dropped = {}

\* ------------------------------------------------- transcript accumulator
\* fault variant: the buffer overwritten by the partial text
AppendTextOverwrite(buf, text) == IF text # <<>> THEN text ELSE buf

\* currentInputTransRef.current += text, under "if (text)"
AppendText(buf, text) == IF text # <<>> THEN buf \o text ELSE buf

AppendPart(parts, text) == IF text # <<>> THEN Append(parts, text) ELSE parts

\* currentInputLanguageRef after "if (code) currentInputLanguageRef.current = code"
NoteInputLanguage(cur, code) == IF code # Undefined THEN code ELSE cur

\* lastClientLanguageRef after the language code extraction
NoteClientLanguage(last, code) ==
  IF code # Undefined /\ ~IsFrenchCode(code) THEN code ELSE last

\* fault variant: the direction inverted
IsFrenchOutputInverted(detected) == IsFrenchCode(detected)

\* isFrenchOutput, from the turn's detected input language
IsFrenchOutput(detected) == ~IsFrenchCode(detected)

UserItem(text, language, now) ==
  [id |-> <<now, "user">>, source |-> "user", text |-> text,
   language |-> language, isFinal |-> TRUE, timestamp |-> now]

ModelItem(text, now) ==
  [id |-> <<now, "model">>, source |-> "model", text |-> text,
   language |-> Undefined, isFinal |-> TRUE, timestamp |-> now]

\* fault variant: the model item emitted before the user item
EmitItemsModelFirst(items, userInput, language, modelOutput, now) ==
  LET items1 == IF modelOutput # <<>>
                THEN Append(items, ModelItem(modelOutput, now))
                ELSE items
  IN IF userInput # <<>>
     THEN Append(items1, UserItem(userInput, language, now))
     ELSE items1

\* setTranscripts(prev => [...prev, item]) for the user text, then for the
\* model text, each under "if (text)"
EmitItems(items, userInput, language, modelOutput, now) ==
  LET items1 == IF userInput # <<>>
                THEN Append(items, UserItem(userInput, language, now))
                ELSE items
  IN IF modelOutput # <<>>
     THEN Append(items1, ModelItem(modelOutput, now))
     ELSE items1

\* the utterance speakText hands to window.speechSynthesis.speak
speakText(text, isFrenchOutput, lastClient) ==
  [text |-> text, lang |-> SpeakLang(isFrenchOutput, targetLanguage, lastClient)]

\* fault variant: only the latest partial text is shown
StreamingTextPartial(buf, text) == text

\* setStreamingUserText(currentInputTransRef.current), after the append of
\* text to the buffer
StreamingText(buf, text) == buf

\* The state of the accumulator after handleTranscription(m), as a record.
handleTranscription(m) ==
  LET in1 == IF m.hasIn THEN AppendText(currentInputTrans, m.inText)
             ELSE currentInputTrans
      sUser1 == IF m.hasIn /\ m.inText # <<>>
                THEN StreamingText(in1, m.inText) ELSE streamingUserText
      inParts1 == IF m.hasIn THEN AppendPart(inputParts, m.inText) ELSE inputParts
      lang1 == IF m.hasIn THEN NoteInputLanguage(currentInputLanguage, m.inLang)
               ELSE currentInputLanguage
      last1 == IF m.hasIn THEN NoteClientLanguage(lastClientLanguage, m.inLang)
               ELSE lastClientLanguage
      out1 == IF m.hasOut THEN AppendText(currentOutputTrans, m.outText)
              ELSE currentOutputTrans
      sModel1 == IF m.hasOut /\ m.outText # <<>>
                 THEN StreamingText(out1, m.outText) ELSE streamingModelText
      outParts1 == IF m.hasOut THEN AppendPart(outputParts, m.outText)
                   ELSE outputParts
      userInput == Trim(in1)
      modelOutput == Trim(out1)
      isFrenchOutput == IsFrenchOutput(lang1)
      emitUser == m.turnComplete /\ userInput # <<>>
      emitModel == m.turnComplete /\ modelOutput # <<>>
      items2 == IF m.turnComplete
                THEN EmitItems(transcripts, userInput, lang1, modelOutput, dateNow)
                ELSE transcripts
  IN [in |-> IF emitUser THEN <<>> ELSE in1,
      lang |-> IF emitUser THEN Undefined ELSE lang1,
      sUser |-> IF emitUser THEN <<>> ELSE sUser1,
      inParts |-> IF emitUser THEN <<>> ELSE inParts1,
      last |-> last1,
      out |-> IF emitModel THEN <<>> ELSE out1,
      sModel |-> IF emitModel THEN <<>> ELSE sModel1,
      outParts |-> IF emitModel THEN <<>> ELSE outParts1,
      turnLang |-> IF m.turnComplete THEN Undefined
                   ELSE IF m.hasIn /\ m.inLang # Undefined THEN m.inLang
                   ELSE turnLanguage,
      items |-> items2,
      speech |-> IF emitModel /\ useBrowserTTS
                 THEN Append(speechQueue, speakText(modelOutput, isFrenchOutput, last1))
                 ELSE speechQueue]

\* ------------------------------------------------------ playback scheduler
\* fault variant: a cursor set to the clock, not clamped to it
ClampCursorNow(cursor, now) == now

\* nextStartTimeRef.current = Math.max(nextStartTimeRef.current, ctx.currentTime)
ClampCursor(cursor, now) == Max(cursor, now)

\* the guard of the audio branch of onmessage
PlaysAudio(m) ==
  /\ ~useBrowserTTS
  /\ m.audio # 0
  /\ audioContextRef # 0
  /\ outputAnalyserRef # 0

\* fault variant: a cursor that is not advanced past the buffer
AdvanceCursorStuck(cursor, dur) == cursor

\* the cursor after "nextStartTimeRef.current += audioBuffer.duration"
AdvanceCursor(cursor, dur) == cursor + dur

\* the start time handed to source.start()
StartTime(cursor, now) == cursor

\* fault variant: speech cancelled whatever the speech mode
CancelSpeechAlways(queue) == <<>>

\* speechSynthesis.cancel() under "if (useBrowserTTSRef.current)"
CancelSpeech(queue) == IF useBrowserTTS THEN <<>> ELSE queue

\* onmessage(m) of the session opened by call a of connectToGemini, up to
\* its first suspension (await decodeAudioData) or to its end.
OnMessage(a, m) ==
  /\ session[a] = "open"
  /\ \E r \in {handleTranscription(m)} :
     /\ Len(AppendText(currentInputTrans, m.inText)) <= MaxBuf
     /\ Len(AppendText(currentOutputTrans, m.outText)) <= MaxBuf
     /\ Len(r.items) <= MaxItems
     /\ Len(r.speech) <= MaxSpeech
     /\ currentInputTrans' = r.in
     /\ currentOutputTrans' = r.out
     /\ currentInputLanguage' = r.lang
     /\ lastClientLanguage' = r.last
     /\ transcripts' = r.items
     /\ streamingUserText' = r.sUser
     /\ streamingModelText' = r.sModel
     /\ inputParts' = r.inParts
     /\ turnLanguage' = r.turnLang
     /\ turnAudio' = IF m.turnComplete THEN {}
                     ELSE IF PlaysAudio(m) THEN turnAudio \cup {nAudio + 1}
                     ELSE turnAudio
     /\ outputParts' = r.outParts
     /\ IF PlaysAudio(m)
        THEN /\ nAudio < MaxAudio
             /\ nextStartTime' = ClampCursor(nextStartTime, ctxTime[audioContextRef])
             /\ nAudio' = nAudio + 1
             /\ pending' = pending \cup
                  {[id |-> nAudio + 1, ctx |-> audioContextRef, dur |-> m.audio,
                    ok |-> m.decodable, interrupted |-> m.interrupted]}
             /\ clampMax' = Max(clampMax, ctxTime[audioContextRef])
             /\ speechQueue' = r.speech
             /\ UNCHANGED <<sources, started, stopped, flushed, preInterrupt>>
        ELSE IF m.interrupted
        THEN /\ stopped' = stopped \cup sources
             /\ sources' = {}
             /\ nextStartTime' = 0
             /\ flushed' = "interrupt"
             /\ clampMax' = 0
             /\ speechQueue' = CancelSpeech(r.speech)
             /\ preInterrupt' = preInterrupt \cup {q.id : q \in pending}
             /\ UNCHANGED <<pending, nAudio, started>>
        ELSE /\ speechQueue' = r.speech
             /\ UNCHANGED svars
  /\ UNCHANGED <<dateNow, setvars, refvars, objvars, lvars, cvars>>

\* The decode of a suspended onmessage call completes, in any order among
\* the suspended calls, and the call runs to its end.
DecodeCompletes(p) == p \in pending

\* the rest of onmessage after await decodeAudioData
\* fault variant: a failed decode treated as a decoded buffer
DecodeSucceedsAlways(p) == TRUE

\* the await in the try block returned a buffer (it did not throw into the
\* catch block)
DecodeSucceeds(p) == p.ok

DecodeDone(p) ==
  /\ DecodeCompletes(p)
  /\ pending' = pending \ {p}
  /\ LET t0 == StartTime(nextStartTime, ctxTime[p.ctx])
         cursor1 == IF DecodeSucceeds(p) THEN AdvanceCursor(nextStartTime, p.dur) ELSE nextStartTime
         sources1 == IF DecodeSucceeds(p) THEN sources \cup {p.id} ELSE sources
         started1 == IF DecodeSucceeds(p)
                     THEN Append(started,
                                 [id |-> p.id, t0 |-> t0, dur |-> p.dur,
                                  cursor |-> nextStartTime,
                                  at |-> ctxTime[p.ctx], ctx |-> p.ctx,
                                  flushed |-> flushed, clamp |-> clampMax])
                     ELSE started
         flushed1 == IF DecodeSucceeds(p) THEN "none" ELSE flushed
         clampMax1 == IF DecodeSucceeds(p) THEN 0 ELSE clampMax
     IN /\ started' = started1
        /\ IF p.interrupted
           THEN /\ stopped' = stopped \cup sources1
                /\ sources' = {}
                /\ nextStartTime' = 0
                /\ flushed' = "interrupt"
                /\ clampMax' = 0
                /\ preInterrupt' =
                     preInterrupt \cup {q.id : q \in pending \ {p}}
                /\ speechQueue' = CancelSpeech(speechQueue)
           ELSE /\ stopped' = stopped
                /\ sources' = sources1
                /\ nextStartTime' = cursor1
                /\ flushed' = flushed1
                /\ clampMax' = clampMax1
                /\ preInterrupt' = preInterrupt
                /\ speechQueue' = speechQueue
  /\ UNCHANGED <<nAudio, tvars, setvars, refvars, objvars, lvars, cvars>>

\* the 'ended' listener of a source whose buffer has played to its end
SourceEnded(id) ==
  /\ id \in sources
  /\ \E i \in 1..Len(started) :
       /\ started[i].id = id
       /\ ctxState[started[i].ctx] = "running"
       /\ ctxTime[started[i].ctx] >= Max(started[i].t0, started[i].at) + started[i].dur
  /\ sources' = sources \ {id}
  /\ UNCHANGED <<nextStartTime, pending, nAudio, started, stopped, flushed,
                 clampMax, preInterrupt, tvars, speechQueue, setvars, refvars,
                 objvars, lvars, cvars>>

\* the clock of a running output context advances
TickAudio(a) ==
  /\ ctxState[a] = "running"
  /\ ctxTime[a] < MaxTime
  /\ ctxTime' = [ctxTime EXCEPT ![a] = @ + 1]
  /\ UNCHANGED <<inCtxState, ctxState, gain, session,
                 tvars, speechQueue, setvars, svars, refvars, lvars, cvars>>

\* the wall clock advances
TickDate ==
  /\ dateNow < MaxDate
  /\ dateNow' = dateNow + 1
  /\ UNCHANGED <<currentInputTrans, currentOutputTrans, currentInputLanguage,
                 lastClientLanguage, transcripts, streamingUserText,
                 streamingModelText, inputParts, outputParts, turnLanguage, turnAudio,
                 speechQueue, setvars, svars, refvars, objvars, lvars, cvars>>

\* utterance.onend: the synthesizer finished its first queued utterance
UtteranceEnd ==
  /\ speechQueue # <<>>
  /\ speechQueue' = Tail(speechQueue)
  /\ UNCHANGED <<tvars, setvars, svars, refvars, objvars, lvars, cvars>>

\* -------------------------------------------------------------- settings
toggleMute ==
  /\ isOutputMuted' = ~isOutputMuted
  /\ gain' = IF outputGainRef # 0
             THEN [gain EXCEPT ![outputGainRef] = IF ~isOutputMuted THEN 0 ELSE 1]
             ELSE gain
  /\ UNCHANGED <<useBrowserTTS, targetLanguage, inCtxState, ctxState, ctxTime,
                 session, tvars, speechQueue, svars, refvars, lvars, cvars>>

\* the settings panel's switch, mirrored into useBrowserTTSRef
setUseBrowserTTS ==
  /\ useBrowserTTS' = ~useBrowserTTS
  /\ UNCHANGED <<targetLanguage, isOutputMuted, tvars, speechQueue, svars,
                 refvars, objvars, lvars, cvars>>

\* the settings panel's language selector, mirrored into targetLanguageRef
setTargetLanguage(t) ==
  /\ t # targetLanguage
  /\ targetLanguage' = t
  /\ UNCHANGED <<useBrowserTTS, isOutputMuted, tvars, speechQueue, svars,
                 refvars, objvars, lvars, cvars>>

\* ---------------------------------------------------------- level monitor
\* the largest value of a byte of getByteFrequencyData
ByteMax == 255

\* audioLevel is kept in units of 1 / (10 * ByteMax), so that avg / 255 and
\* (avg / 255) * 1.2 are whole numbers: the level 1 is LevelOne
LevelOne == 10 * ByteMax

\* averages of the frequency bytes of an analyser that are explored
Averages == {0, 128, ByteMax}

Min(a, b) == IF a <= b THEN a ELSE b

\* fault variant: a level that is not capped
ClampLevelNone(maxVol) == maxVol

\* Math.min(1, maxVol)
ClampLevel(maxVol) == Min(LevelOne, maxVol)

\* the level updateVolume hands to setAudioLevel, the analysers' byte
\* averages being inAvg and outAvg
updateVolume(hasInput, inAvg, hasOutput, outAvg) ==
  LET maxVol0 == 0
      maxVol1 == IF hasInput THEN Max(maxVol0, 10 * inAvg) ELSE maxVol0
      maxVol2 == IF hasOutput THEN Max(maxVol1, 12 * outAvg) ELSE maxVol1
  IN ClampLevel(maxVol2)

\* --------------------------------------------------------------- connect
\* the catch block of connectToGemini
ConnectFailed(a) ==
  /\ error' = "connect"
  /\ isConnected' = FALSE
  /\ audioLevel' = audioLevel
  /\ conn' = [conn EXCEPT ![a].pc = "failed"]

\* connectToGemini, from the click to its first await (the button shows
\* "connect" while isConnected is false)
ConnectStartWithin(n) ==
  /\ ~isConnected
  /\ nConnects < n
  /\ LET a == nConnects + 1 IN
     /\ nConnects' = a
     /\ error' = "null"
     /\ inputContextRef' = a
     /\ audioContextRef' = a
     /\ inCtxState' = [inCtxState EXCEPT ![a] = "running"]
     /\ ctxState' = [ctxState EXCEPT ![a] = "running"]
     /\ ctxTime' = [ctxTime EXCEPT ![a] = 0]
     /\ conn' = [conn EXCEPT ![a] = [pc |-> "resume", muted |-> isOutputMuted]]
  /\ UNCHANGED <<isConnected, audioLevel, errorLog, discPc, outputGainRef, outputAnalyserRef,
                 sessionPromiseRef, gain, session,
                 tvars, speechQueue, setvars, svars, cvars>>

ConnectStart == ConnectStartWithin(MaxConnects)

\* connectToGemini, after the contexts resumed: output gain and analysers,
\* up to await getUserMedia
ConnectSetup(a) ==
  /\ conn[a].pc = "resume"
  /\ IF audioContextRef = 0
     THEN /\ ConnectFailed(a)
          /\ UNCHANGED <<outputGainRef, outputAnalyserRef, gain,
                         inputAnalyserRef, monitor, animationFrameRef>>
     ELSE /\ outputGainRef' = a
          /\ gain' = [gain EXCEPT ![a] = IF conn[a].muted THEN 0 ELSE 1]
          /\ IF inputContextRef = 0
             THEN /\ ConnectFailed(a)
                  /\ UNCHANGED <<outputAnalyserRef, inputAnalyserRef, monitor,
                                 animationFrameRef>>
             ELSE /\ inputAnalyserRef' = a
                  /\ outputAnalyserRef' = a
                  /\ monitor' = [monitor EXCEPT ![a] = "running"]
                  /\ audioLevel' = updateVolume(TRUE, 0, TRUE, 0)
                  /\ animationFrameRef' = a
                  /\ conn' = [conn EXCEPT ![a].pc = "mic"]
                  /\ UNCHANGED <<error, isConnected>>
  /\ UNCHANGED <<nConnects, errorLog, discPc, inputContextRef,
                 audioContextRef,
                 sessionPromiseRef, inCtxState, ctxState, ctxTime, session,
                 tvars, speechQueue, setvars, svars,
                 streamRef, processorRef, streamState, processor, promise,
                 queued, sent, nBlocks, dropped>>

\* connectToGemini, after getUserMedia settled: the live session is requested
ConnectMic(a, granted) ==
  /\ conn[a].pc = "mic"
  /\ IF granted
     THEN /\ streamRef' = a
          /\ streamState' = [streamState EXCEPT ![a] = "live"]
          /\ sessionPromiseRef' = a
          /\ promise' = [promise EXCEPT ![a] = "pending"]
          /\ session' = [session EXCEPT ![a] = "connecting"]
          /\ conn' = [conn EXCEPT ![a].pc = "done"]
          /\ UNCHANGED <<error, isConnected, audioLevel>>
     ELSE /\ ConnectFailed(a)
          /\ UNCHANGED <<sessionPromiseRef, session, streamRef, streamState,
                         promise>>
  /\ UNCHANGED <<nConnects, errorLog, discPc, inputContextRef,
                 audioContextRef,
                 outputGainRef, outputAnalyserRef, inCtxState, ctxState,
                 ctxTime, gain, tvars, speechQueue, setvars, svars,
                 inputAnalyserRef, processorRef, animationFrameRef, processor,
                 monitor, queued, sent, nBlocks, dropped>>

\* connectToGemini, after getUserMedia resolved: the stream is kept, and the
\* construction of the API client throws into the catch block
ConnectClientFails(a) ==
  /\ conn[a].pc = "mic"
  /\ streamRef' = a
  /\ streamState' = [streamState EXCEPT ![a] = "live"]
  /\ ConnectFailed(a)
  /\ UNCHANGED <<nConnects, errorLog, discPc, refvars, objvars,
                 tvars, speechQueue, setvars, svars,
                 inputAnalyserRef, processorRef, animationFrameRef, processor,
                 monitor, promise, queued, sent, nBlocks, dropped>>

\* the promise live.connect returned is rejected: the channel could not be
\* opened (nothing awaits the promise, so the catch block does not run)
ConnectRejected(a) ==
  /\ session[a] = "connecting"
  /\ promise[a] = "pending"
  /\ promise' = [promise EXCEPT ![a] = "rejected"]
  /\ session' = [session EXCEPT ![a] = "closed"]
  /\ dropped' = dropped \cup {queued[a][i] : i \in 1..Len(queued[a])}
  /\ queued' = [queued EXCEPT ![a] = <<>>]
  /\ UNCHANGED <<inCtxState, ctxState, ctxTime, gain,
                 tvars, speechQueue, setvars, svars, refvars, lvars,
                 inputAnalyserRef, streamRef, processorRef, animationFrameRef,
                 streamState, processor, monitor, sent, nBlocks>>

\* callbacks.onopen
OnOpen(a) ==
  /\ session[a] = "connecting"
  /\ session' = [session EXCEPT ![a] = "open"]
  /\ isConnected' = TRUE
  /\ audioLevel' = audioLevel
  /\ IF inputContextRef = 0 \/ streamRef = 0 \/ inputAnalyserRef = 0
     THEN UNCHANGED <<processorRef, processor>>
     ELSE /\ processorRef' = a
          /\ processor' = [processor EXCEPT
                             ![a] = [state |-> "attached", ctx |-> inputContextRef]]
  /\ UNCHANGED <<error, nConnects, errorLog, conn, discPc, inCtxState, ctxState,
                 ctxTime,
                 gain, tvars, speechQueue, setvars, svars, refvars,
                 inputAnalyserRef, streamRef, animationFrameRef, streamState,
                 monitor, promise, queued, sent, nBlocks, dropped>>

\* callbacks.onclose
OnClose(a) ==
  /\ session[a] \in {"connecting", "open"}
  /\ session' = [session EXCEPT ![a] = "closed"]
  /\ isConnected' = FALSE
  /\ audioLevel' = audioLevel
  /\ UNCHANGED <<error, nConnects, errorLog, conn, discPc, inCtxState, ctxState,
                 ctxTime,
                 gain, tvars, speechQueue, setvars, svars, refvars, cvars>>

\* the kinds of value the channel hands to onerror
ErrorKinds == {"invalidArgument", "internalError", "otherError", "notAnError"}

\* callbacks.onerror
OnError(a, kind) ==
  /\ session[a] \in {"connecting", "open"}
  /\ Len(errorLog) < MaxErrors
  /\ error' = CASE kind = "invalidArgument" -> "configuration"
                [] kind = "internalError" -> error
                [] kind = "otherError" -> "generic"
                [] OTHER -> error
  /\ errorLog' = Append(errorLog, kind)
  /\ UNCHANGED <<isConnected, audioLevel, nConnects, conn, discPc,
                 tvars, speechQueue, setvars, svars, refvars, objvars, cvars>>

\* -------------------------------------------------------- capture pipeline
\* fault variant: chunks that are never handed to the session
SendChunksLost(s, ids) ==
  /\ sent' = sent
  /\ dropped' = dropped \cup {ids[i] : i \in 1..Len(ids)}

\* session.sendRealtimeInput({ media: pcmBlob }) for each chunk of ids, on the
\* session of call s; a session that is not open transmits nothing
SendChunks(s, ids) ==
  IF session[s] = "open"
  THEN /\ sent' = [sent EXCEPT ![s] = sent[s] \o ids]
       /\ dropped' = dropped
  ELSE /\ sent' = sent
       /\ dropped' = dropped \cup {ids[i] : i \in 1..Len(ids)}

\* processor.onaudioprocess of the processor made by onopen of call a:
\* sessionPromiseRef.current?.then(session => session.sendRealtimeInput(..))
CaptureBlock(a) ==
  /\ processor[a].state = "attached"
  /\ inCtxState[processor[a].ctx] = "running"
  /\ nBlocks < MaxBlocks
  /\ nBlocks' = nBlocks + 1
  /\ LET id == nBlocks + 1
         s == sessionPromiseRef
     IN IF s = 0
        THEN /\ dropped' = dropped \cup {id}
             /\ UNCHANGED <<queued, sent>>
        ELSE IF promise[s] = "pending"
        THEN /\ queued' = [queued EXCEPT ![s] = Append(queued[s], id)]
             /\ UNCHANGED <<sent, dropped>>
        ELSE IF promise[s] = "fulfilled"
        THEN /\ SendChunks(s, <<id>>)
             /\ UNCHANGED queued
        ELSE /\ dropped' = dropped \cup {id}
             /\ UNCHANGED <<queued, sent>>
  /\ UNCHANGED <<tvars, speechQueue, setvars, svars, refvars, objvars, lvars,
                 inputAnalyserRef, streamRef, processorRef, animationFrameRef,
                 streamState, processor, monitor, promise>>

\* the promise live.connect returned is fulfilled with the session; the
\* callbacks registered with then() run in the order they were registered
SessionReady(a) ==
  /\ promise[a] = "pending"
  /\ session[a] = "open"
  /\ promise' = [promise EXCEPT ![a] = "fulfilled"]
  /\ SendChunks(a, queued[a])
  /\ queued' = [queued EXCEPT ![a] = <<>>]
  /\ UNCHANGED <<tvars, speechQueue, setvars, svars, refvars, objvars, lvars,
                 inputAnalyserRef, streamRef, processorRef, animationFrameRef,
                 streamState, processor, monitor, nBlocks>>

\* updateVolume, run from the animation frame that the loop started by call
\* a of connectToGemini requested; it requests the loop's next frame
MonitorTick(a, inAvg, outAvg) ==
  /\ monitor[a] = "running"
  /\ audioLevel' = updateVolume(inputAnalyserRef # 0, inAvg,
                                outputAnalyserRef # 0, outAvg)
  /\ animationFrameRef' = a
  /\ UNCHANGED <<isConnected, error, nConnects, errorLog, conn, discPc,
                 tvars, speechQueue, setvars, svars, refvars, objvars,
                 inputAnalyserRef, streamRef, processorRef, streamState,
                 processor, monitor, promise, queued, sent, nBlocks, dropped>>

\* ------------------------------------------------------------ disconnect
\* disconnect, from "if (sessionPromiseRef.current)" to its end
DisconnectTail ==
  /\ sessionPromiseRef' = 0
  /\ isConnected' = FALSE
  /\ audioLevel' = 0
  /\ currentInputTrans' = <<>>
  /\ currentOutputTrans' = <<>>
  /\ currentInputLanguage' = Undefined
  /\ streamingUserText' = <<>>
  /\ streamingModelText' = <<>>
  /\ inputParts' = <<>>
  /\ turnLanguage' = Undefined
  /\ turnAudio' = {}
  /\ outputParts' = <<>>
  /\ nextStartTime' = 0
  /\ sources' = {}
  /\ flushed' = "disconnect"
  /\ clampMax' = 0
  /\ speechQueue' = CancelSpeech(speechQueue)
  /\ discPc' = "idle"
  /\ UNCHANGED <<lastClientLanguage, transcripts, dateNow, setvars,
                 pending, nAudio, started, stopped, preInterrupt,
                 outputGainRef, outputAnalyserRef,
                 error, nConnects, errorLog, conn, ctxTime, gain, session>>

\* disconnect is suspended in an await
DisconnectAwaits(pc) ==
  /\ discPc' = pc
  /\ UNCHANGED <<tvars, speechQueue, setvars, svars, outputGainRef,
                 outputAnalyserRef, sessionPromiseRef,
                 isConnected, audioLevel, error, nConnects, errorLog, conn, ctxTime, gain,
                 session>>

\* disconnect from "if (audioContextRef.current)" on
DisconnectOutput ==
  IF audioContextRef # 0
  THEN /\ ctxState' = [ctxState EXCEPT ![audioContextRef] = "closed"]
       /\ UNCHANGED audioContextRef
       /\ DisconnectAwaits("closingOutput")
  ELSE /\ UNCHANGED <<ctxState, audioContextRef>>
       /\ DisconnectTail

\* fault variant: the animation frame is left requested
DisconnectDevicesKeepFrame ==
  /\ UNCHANGED <<animationFrameRef, monitor>>
  /\ streamRef' = 0
  /\ streamState' = IF streamRef # 0
                    THEN [streamState EXCEPT ![streamRef] = "stopped"]
                    ELSE streamState
  /\ processorRef' = 0
  /\ processor' = IF processorRef # 0
                  THEN [processor EXCEPT ![processorRef].state = "detached"]
                  ELSE processor
  /\ UNCHANGED <<inputAnalyserRef, promise, queued, sent, nBlocks, dropped>>

\* disconnect, up to "if (inputContextRef.current)": the animation frame is
\* cancelled, the tracks of the stream stopped, the processor disconnected
DisconnectDevices ==
  /\ animationFrameRef' = 0
  /\ monitor' = IF animationFrameRef # 0
                THEN [monitor EXCEPT ![animationFrameRef] = "cancelled"]
                ELSE monitor
  /\ streamRef' = 0
  /\ streamState' = IF streamRef # 0
                    THEN [streamState EXCEPT ![streamRef] = "stopped"]
                    ELSE streamState
  /\ processorRef' = 0
  /\ processor' = IF processorRef # 0
                  THEN [processor EXCEPT ![processorRef].state = "detached"]
                  ELSE processor
  /\ UNCHANGED <<inputAnalyserRef, promise, queued, sent, nBlocks, dropped>>

\* disconnect, from the click to its first await or to its end (the button
\* shows "disconnect" while isConnected is true)
DisconnectStart ==
  /\ isConnected
  /\ discPc = "idle"
  /\ DisconnectDevices
  /\ IF inputContextRef # 0
     THEN /\ inCtxState' = [inCtxState EXCEPT ![inputContextRef] = "closed"]
          /\ UNCHANGED <<inputContextRef, audioContextRef, ctxState>>
          /\ DisconnectAwaits("closingInput")
     ELSE /\ UNCHANGED <<inputContextRef, inCtxState>>
          /\ DisconnectOutput

\* disconnect, after await inputContextRef.current.close()
DisconnectInputClosed ==
  /\ discPc = "closingInput"
  /\ inputContextRef' = 0
  /\ UNCHANGED <<inCtxState, cvars>>
  /\ DisconnectOutput

\* disconnect, after await audioContextRef.current.close()
DisconnectOutputClosed ==
  /\ discPc = "closingOutput"
  /\ audioContextRef' = 0
  /\ UNCHANGED <<inputContextRef, inCtxState, ctxState, cvars>>
  /\ DisconnectTail

\* ------------------------------------------------------- specifications
Lifecycle ==
  \/ ConnectStart
  \/ \E a \in Attempts : ConnectSetup(a)
  \/ \E a \in Attempts, granted \in BOOLEAN : ConnectMic(a, granted)
  \/ \E a \in Attempts : OnOpen(a)
  \/ \E a \in Attempts : OnClose(a)
  \/ DisconnectStart
  \/ DisconnectInputClosed
  \/ DisconnectOutputClosed

\* every handler, with every message shape
Next ==
  \/ Lifecycle
  \/ \E a \in Attempts, kind \in ErrorKinds : OnError(a, kind)
  \/ \E a \in Attempts : ConnectClientFails(a)
  \/ \E a \in Attempts : ConnectRejected(a)
  \/ \E a \in Attempts : SessionReady(a)
  \/ \E a \in Attempts : CaptureBlock(a)
  \/ \E a \in Attempts, i \in Averages, o \in Averages : MonitorTick(a, i, o)
  \/ \E a \in Attempts, m \in TextMsgs \cup AudioMsgs : OnMessage(a, m)
  \/ \E p \in pending : DecodeDone(p)
  \/ \E id \in sources : SourceEnded(id)
  \/ \E a \in Attempts : TickAudio(a)
  \/ TickDate
  \/ UtteranceEnd
  \/ toggleMute
  \/ setUseBrowserTTS
  \/ \E t \in Targets : setTargetLanguage(t)

Spec == Init /\ [][Next]_vars

\* the playback scheduler: messages carry audio and the interrupted flag
NextSched ==
  \/ Lifecycle
  \/ \E a \in Attempts, m \in AudioMsgs : OnMessage(a, m)
  \/ \E p \in pending : DecodeDone(p)
  \/ \E id \in sources : SourceEnded(id)
  \/ \E a \in Attempts : TickAudio(a)

SpecSched == Init /\ [][NextSched]_vars

\* a message of each kind, for the steps that surround the scheduler
CursorMsgs ==
  { AudioMsg(1, TRUE, FALSE), InterruptMsg, InputMsg(<<"a">>, Undefined, FALSE) }

\* the scheduler among every kind of step of the session
NextCursor ==
  \/ Lifecycle
  \/ \E a \in Attempts, kind \in ErrorKinds : OnError(a, kind)
  \/ \E a \in Attempts, m \in CursorMsgs : OnMessage(a, m)
  \/ \E p \in pending : DecodeDone(p)
  \/ \E id \in sources : SourceEnded(id)
  \/ \E a \in Attempts : TickAudio(a)
  \/ toggleMute

SpecCursor == Init /\ [][NextCursor]_vars

\* transcription events with every text fragment and no language tag
AccumMsgs ==
  { InputMsg(t, Undefined, tc) : t \in Fragments, tc \in BOOLEAN }
  \cup { OutputMsg(t, tc) : t \in Fragments \ {<<"b">>}, tc \in BOOLEAN }
  \cup { TurnCompleteMsg, InterruptMsg }

\* the transcript accumulator: accumulation and finalization
NextTrans ==
  \/ Lifecycle
  \/ \E a \in Attempts, m \in AccumMsgs : OnMessage(a, m)

SpecTrans == Init /\ [][NextTrans]_vars

\* a text that fills an accumulation buffer
Word == [i \in 1..MaxBuf |-> "a"]

\* transcription events with every language tag
LangMsgs ==
  { InputMsg(t, l, tc) : t \in {<<>>, Word}, l \in Tags \cup {Undefined},
                         tc \in BOOLEAN }
  \cup { OutputMsg(Word, tc) : tc \in BOOLEAN }
  \cup { TurnCompleteMsg, InterruptMsg }

\* the transcript accumulator: detected languages and fallback speech
NextLang ==
  \/ Lifecycle
  \/ \E a \in Attempts, m \in LangMsgs : OnMessage(a, m)
  \/ UtteranceEnd
  \/ setUseBrowserTTS
  \/ \E t \in Targets : setTargetLanguage(t)

SpecLang == Init /\ [][NextLang]_vars

\* a message of each kind for a session that is set up and torn down
SessionMsgs ==
  { InputMsg(<<"a">>, TagEsES, FALSE), OutputMsg(<<" ">>, FALSE),
    AudioMsg(1, TRUE, FALSE) }

\* the session lifecycle with its devices, its channel and the capture path
NextSession ==
  \/ Lifecycle
  \/ \E a \in Attempts : ConnectClientFails(a)
  \/ \E a \in Attempts : ConnectRejected(a)
  \/ \E a \in Attempts : SessionReady(a)
  \/ \E a \in Attempts : CaptureBlock(a)
  \/ \E a \in Attempts, m \in SessionMsgs : OnMessage(a, m)
  \/ \E p \in pending : DecodeDone(p)

SpecSession == Init /\ [][NextSession]_vars

\* a message whose audio cannot be decoded and that also carries an input
\* transcription, turnComplete and, if i, the interrupted flag
BadAudioMsg(i) ==
  [AudioMsg(1, FALSE, i) EXCEPT !.hasIn = TRUE, !.inText = <<"a">>,
                                !.turnComplete = TRUE]

FaultMsgs ==
  { BadAudioMsg(i) : i \in BOOLEAN } \cup { AudioMsg(1, TRUE, FALSE) }

\* the scheduler with messages whose audio fails to decode
NextFault ==
  \/ Lifecycle
  \/ \E a \in Attempts, m \in FaultMsgs : OnMessage(a, m)
  \/ \E p \in pending : DecodeDone(p)
  \/ \E id \in sources : SourceEnded(id)
  \/ \E a \in Attempts : TickAudio(a)

SpecFault == Init /\ [][NextFault]_vars

\* the session connected again: the lifecycle with a second call of
\* connectToGemini, the level monitor and the capture path
NextReconnect ==
  \/ ConnectStartWithin(MaxAttempts)
  \/ \E a \in Attempts : ConnectSetup(a)
  \/ \E a \in Attempts, granted \in BOOLEAN : ConnectMic(a, granted)
  \/ \E a \in Attempts : OnOpen(a)
  \/ \E a \in Attempts : OnClose(a)
  \/ DisconnectStart
  \/ DisconnectInputClosed
  \/ DisconnectOutputClosed
  \/ \E a \in Attempts : SessionReady(a)
  \/ \E a \in Attempts : CaptureBlock(a)
  \/ \E a \in Attempts, i \in Averages, o \in Averages : MonitorTick(a, i, o)

SpecReconnect == Init /\ [][NextReconnect]_vars

\* a message with audio, for a session whose channel reports errors
ErrorMsgs == { AudioMsg(1, TRUE, FALSE) }

\* the session with channel errors, the capture path and inbound audio
NextError ==
  \/ Lifecycle
  \/ \E a \in Attempts, kind \in ErrorKinds : OnError(a, kind)
  \/ \E a \in Attempts : SessionReady(a)
  \/ \E a \in Attempts : CaptureBlock(a)
  \/ \E a \in Attempts, m \in ErrorMsgs : OnMessage(a, m)
  \/ \E p \in pending : DecodeDone(p)

SpecError == Init /\ [][NextError]_vars

\* one session set up and torn down, with its level monitor and capture path
NextTeardown ==
  \/ Lifecycle
  \/ \E a \in Attempts : SessionReady(a)
  \/ \E a \in Attempts : CaptureBlock(a)
  \/ \E a \in Attempts, i \in Averages, o \in Averages : MonitorTick(a, i, o)

SpecTeardown == Init /\ [][NextTeardown]_vars

\* the transcript accumulator with a wall clock that advances
NextClock ==
  \/ NextTrans
  \/ TickDate

SpecClock == Init /\ [][NextClock]_vars

\* a turn of the model: audio, its transcription, and the turn-complete
VoiceMsgs ==
  { AudioMsg(1, TRUE, FALSE), OutputMsg(<<"a">>, FALSE), TurnCompleteMsg }

\* the two voice paths, with the fallback-speech setting toggled at any moment
NextVoice ==
  \/ Lifecycle
  \/ \E a \in Attempts, m \in VoiceMsgs : OnMessage(a, m)
  \/ \E p \in pending : DecodeDone(p)
  \/ UtteranceEnd
  \/ setUseBrowserTTS

SpecVoice == Init /\ [][NextVoice]_vars

\* ===================================================== playback scheduler
\* a step that runs the interrupted branch of onmessage
HandlesInterrupt ==
  \/ \E a \in Attempts, m \in {x \in AudioMsgs : x.interrupted} :
       ~PlaysAudio(m) /\ OnMessage(a, m)
  \/ \E p \in pending : p.interrupted /\ DecodeDone(p)

\* a step of disconnect
Disconnects ==
  DisconnectStart \/ DisconnectInputClosed \/ DisconnectOutputClosed

\* the k-th started buffer follows the (k-1)-th with no cursor reset between
Follows(k) == k \in 2..Len(started) /\ started[k].flushed = "none"

EndOf(k) == started[k].t0 + started[k].dur

\* C1 as claimed: absent interruption and disconnect, the k-th buffer's start
\* time is the (k-1)-th buffer's start time plus its duration, and no two
\* buffers' spans overlap, however the device clock advances.
C1_GapFreeAlways ==
  \A k \in 1..Len(started) :
    Follows(k) => started[k].t0 = EndOf(k - 1)

\* C1 amended: absent interruption and disconnect, the k-th buffer's start time
\* is the later of the (k-1)-th buffer's end (start plus duration) and the
\* latest device clock reading taken at a message arrival between the two
\* starts; so it never precedes that end and the scheduled spans of such
\* consecutive buffers never overlap.
C1_GapFreeClamped ==
  \A k \in 1..Len(started) :
    Follows(k) =>
      /\ started[k].t0 = Max(EndOf(k - 1), started[k].clamp)
      /\ started[k].t0 >= EndOf(k - 1)

\* C1 witness: with no interruption or disconnect in between, the second
\* buffer was started at the clock reading of an arrival, later than the end
\* of the first.
C1_Witness ==
  /\ Len(started) >= 2
  /\ Follows(2)
  /\ started[2].t0 > EndOf(1)
  /\ started[2].clamp = started[2].t0

\* the companion case: the second buffer started exactly at the end of the first
C1_WitnessBackToBack ==
  /\ Len(started) >= 2
  /\ Follows(2)
  /\ started[2].t0 = EndOf(1)

\* C2 as claimed: right after the interrupted branch ran, every buffer that
\* was active has been stopped, the active set is empty and the cursor is 0;
\* and the first buffer started after it starts at the device clock's current
\* time.
C2_InterruptPostState ==
  [][ /\ HandlesInterrupt =>
           /\ sources' = {}
           /\ nextStartTime' = 0
           /\ sources \subseteq stopped'
      /\ \A k \in 1..Len(started') :
           started'[k].flushed = "interrupt" => started'[k].t0 = started'[k].at
    ]_vars

\* the immediate post-state of C2 alone
C2_PostStateOnly ==
  [][ HandlesInterrupt =>
        /\ sources' = {}
        /\ nextStartTime' = 0
        /\ sources \subseteq stopped' ]_vars

\* C7 as claimed: the cursor never decreases, except in the step that handles
\* an interruption.
C7_CursorMonotoneButInterrupt ==
  [][ nextStartTime' >= nextStartTime \/ HandlesInterrupt ]_vars

\* C7 amended: the cursor never decreases, except in a step that handles an
\* interruption and in the step that completes a disconnect; these are the
\* only steps that reset it.
C7_CursorMonotoneButReset ==
  [][ nextStartTime' >= nextStartTime \/ HandlesInterrupt \/ Disconnects ]_vars

\* C7 witness: a disconnect has reset a cursor that buffers had advanced, and
\* no interruption was ever handled.
C7_Witness ==
  /\ started # <<>>
  /\ flushed = "disconnect"
  /\ nextStartTime = 0
  /\ stopped = {}
  /\ \A k \in 1..Len(started) : started[k].flushed = "none"

\* C8 as claimed: every buffer is started at max(cursor, deviceNow), both
\* read at the moment the buffer is started, so never before the device
\* clock's current time.
C8_StartsAtMaxCursorNow ==
  \A k \in 1..Len(started) :
    /\ started[k].t0 = Max(started[k].cursor, started[k].at)
    /\ started[k].t0 >= started[k].at

\* C9 as claimed: buffers are started in the order their messages arrived,
\* with start times in that order too.
C9_ArrivalOrder ==
  \A i, j \in 1..Len(started) :
    started[i].id < started[j].id =>
      /\ i < j
      /\ started[i].t0 <= started[j].t0

\* =================================================== transcript accumulator
IsUserItem(item) == item.source = "user"

IsModelItem(item) == item.source = "model"

\* the items a step appended
NewItems == SubSeq(transcripts', Len(transcripts) + 1, Len(transcripts'))

TextsOf(items) == [i \in 1..Len(items) |-> items[i].text]

\* the trimmed concatenation, in arrival order, of the partial texts of one
\* side since its buffer was last reset, the text of message m included
TurnText(parts, has, text) ==
  Trim(Flatten(IF has /\ text # <<>> THEN Append(parts, text) ELSE parts))

\* C3: a turn-complete appends, for each side whose trimmed accumulated text
\* is not empty, exactly one item of that source with that text, the trimmed
\* concatenation in arrival order of the side's partial texts since its buffer
\* was last reset; a side with nothing accumulated yields no item.
C3_Finalization ==
  [][ \A a \in Attempts, m \in AccumMsgs :
        (m.turnComplete /\ OnMessage(a, m)) =>
          LET u == TurnText(inputParts, m.hasIn, m.inText)
              o == TurnText(outputParts, m.hasOut, m.outText)
          IN /\ IsPrefix(transcripts, transcripts')
             /\ TextsOf(SelectSeq(NewItems, IsUserItem)) =
                  (IF u # <<>> THEN <<u>> ELSE <<>>)
             /\ TextsOf(SelectSeq(NewItems, IsModelItem)) =
                  (IF o # <<>> THEN <<o>> ELSE <<>>)
    ]_vars

\* C3 witness: the partial input texts "a", "b" were finalized as one user
\* item "ab", and a whitespace-only side produced no item.
C3_Witness ==
  /\ Len(transcripts) = 1
  /\ transcripts[1].source = "user"
  /\ transcripts[1].text = <<"a", "b">>
  /\ currentInputTrans = <<>>
  /\ currentOutputTrans = <<" ">>

BaseCode(tag) == ToLowerCase(SplitDashFirst(tag))

\* the tag names the host language, French
IsHostTag(tag) == BaseCode(tag) = <<"f", "r">>

\* the tag carried by the partial-input event of message m, if any
TagOf(m) == IF m.hasIn THEN m.inLang ELSE Undefined

\* the detected input language of the turn once message m has been handled
Detected(m) == IF TagOf(m) # Undefined THEN TagOf(m) ELSE currentInputLanguage

\* the client/target language: the configured target locale when a fixed
\* target is set, otherwise the locale derived from LastClientLanguage
ClientTargetLocale(target, last) ==
  IF target # "Auto" THEN LANGUAGE_LOCALES(target)
  ELSE mapLanguageCodeToLocale(last)

\* C4: LastClientLanguage is overwritten by the tag of a partial-input event
\* exactly when that tag's base code is not fr, and no other step (a
\* host-language tag, turn-complete, interruption, disconnect, reconnect)
\* changes it.
C4_LastClientLanguageRule ==
  [][ /\ \A a \in Attempts, m \in LangMsgs :
           OnMessage(a, m) =>
             lastClientLanguage' =
               IF TagOf(m) # Undefined /\ ~IsHostTag(TagOf(m))
               THEN TagOf(m) ELSE lastClientLanguage
      /\ (~ \E a \in Attempts, m \in LangMsgs : OnMessage(a, m)) =>
           lastClientLanguage' = lastClientLanguage
    ]_vars

\* C5: a turn-complete that finalizes non-empty model text issues, in
\* fallback speech mode, exactly one speak-request with that text, tagged
\* with the client/target language when the detected input language is the
\* host language and with fr-FR when it is a non-host language; with the
\* fallback mode off it issues none.
C5_Directionality ==
  [][ \A a \in Attempts, m \in LangMsgs :
        (m.turnComplete /\ OnMessage(a, m)) =>
          LET text == Trim(currentOutputTrans \o m.outText)
              detected == Detected(m)
          IN IF text # <<>> /\ useBrowserTTS
             THEN /\ Len(speechQueue') = Len(speechQueue) + 1
                  /\ SubSeq(speechQueue', 1, Len(speechQueue)) = speechQueue
                  /\ speechQueue'[Len(speechQueue')].text = text
                  /\ detected # Undefined =>
                       speechQueue'[Len(speechQueue')].lang =
                         IF IsHostTag(detected)
                         THEN ClientTargetLocale(targetLanguage, lastClientLanguage')
                         ELSE "fr-FR"
             ELSE speechQueue' = speechQueue
    ]_vars

\* a message that carries turnComplete and output text and no input
\* transcription, handled while no input text of the turn is held
ModelOnlyTurn(a, m) ==
  /\ m.turnComplete /\ m.hasOut /\ ~m.hasIn
  /\ Trim(currentOutputTrans \o m.outText) # <<>>
  /\ Trim(currentInputTrans) = <<>>
  /\ useBrowserTTS
  /\ OnMessage(a, m)

\* C6 as claimed: a model-only turn in fallback speech mode appends exactly
\* one model item and issues exactly one speak-request, tagged with the
\* resolved client/target language.
C6_ModelOnlyClientLanguage ==
  [][ \A a \in Attempts, m \in LangMsgs :
        ModelOnlyTurn(a, m) =>
          LET text == Trim(currentOutputTrans \o m.outText)
          IN /\ transcripts' = Append(transcripts, ModelItem(text, dateNow))
             /\ speechQueue' =
                  Append(speechQueue,
                         [text |-> text,
                          lang |-> ClientTargetLocale(targetLanguage,
                                                      lastClientLanguage)])
    ]_vars

\* C6 amended: a model-only turn in fallback speech mode appends exactly one
\* model item and issues exactly one speak-request; the request is tagged
\* fr-FR when no detected-language tag is held.
C6_ModelOnlyHostLanguage ==
  [][ \A a \in Attempts, m \in LangMsgs :
        ModelOnlyTurn(a, m) =>
          LET text == Trim(currentOutputTrans \o m.outText)
          IN /\ transcripts' = Append(transcripts, ModelItem(text, dateNow))
             /\ Len(speechQueue') = Len(speechQueue) + 1
             /\ SubSeq(speechQueue', 1, Len(speechQueue)) = speechQueue
             /\ speechQueue'[Len(speechQueue')].text = text
             /\ currentInputLanguage = Undefined =>
                  speechQueue'[Len(speechQueue')].lang = "fr-FR"
    ]_vars

\* C6 witness: the first message of a session was a model-only turn; it left
\* one model item and one request tagged fr-FR, although the client/target
\* language resolves to en-US.
C6_Witness ==
  /\ Len(transcripts) = 1
  /\ IsModelItem(transcripts[1])
  /\ speechQueue = <<[text |-> transcripts[1].text, lang |-> "fr-FR"]>>
  /\ currentInputLanguage = Undefined
  /\ lastClientLanguage = TagEnUS
  /\ ClientTargetLocale(targetLanguage, lastClientLanguage) = "en-US"

\* ====================================================== session lifecycle
\* a step in which disconnect runs to its end
DisconnectCompletes == Disconnects /\ discPc' = "idle"

\* after the step: not connected, the stream stopped, the processor detached,
\* both contexts closed, the scheduler and the accumulator reset
DevicesAndStateReset ==
  /\ ~isConnected'
  /\ streamRef' = 0
  /\ \A a \in Attempts : streamState'[a] # "live"
  /\ processorRef' = 0
  /\ \A a \in Attempts : processor'[a].state # "attached"
  /\ \A a \in Attempts : inCtxState'[a] # "running" /\ ctxState'[a] # "running"
  /\ nextStartTime' = 0
  /\ sources' = {}
  /\ currentInputTrans' = <<>>
  /\ currentOutputTrans' = <<>>
  /\ currentInputLanguage' = Undefined
  /\ streamingUserText' = <<>>
  /\ streamingModelText' = <<>>

\* after the step: no channel of the run is connecting or open
ChannelClosed == \A a \in Attempts : session'[a] \notin {"connecting", "open"}

\* C11: once disconnect has completed the session is not connected, the
\* microphone stream is stopped, the capture processor detached, both audio
\* contexts closed, the remote channel closed, the cursor 0, the active set
\* empty, and the buffers, the detected-language tag and the streaming texts
\* empty.
C11_DisconnectPostState ==
  [][ DisconnectCompletes => (DevicesAndStateReset /\ ChannelClosed) ]_vars

\* the post-state of C11 without the remote channel
C11_PostStateButChannel ==
  [][ DisconnectCompletes => DevicesAndStateReset ]_vars

\* a step in which call a of connectToGemini fails: the microphone is refused,
\* the API client cannot be built, or the channel cannot be opened
ConnectFails(a) ==
  \/ ConnectMic(a, FALSE)
  \/ ConnectClientFails(a)
  \/ ConnectRejected(a)

\* after the step nothing that call a acquired is still held
NothingAcquired(a) ==
  /\ inCtxState'[a] # "running"
  /\ ctxState'[a] # "running"
  /\ inputContextRef' = 0
  /\ audioContextRef' = 0
  /\ outputGainRef' = 0
  /\ inputAnalyserRef' = 0
  /\ outputAnalyserRef' = 0
  /\ streamRef' = 0
  /\ streamState'[a] # "live"
  /\ monitor'[a] # "running"
  /\ animationFrameRef' = 0

\* C12: when microphone acquisition or the channel connection fails during
\* connect, an error is shown, the session stays not connected, and no audio
\* context, gain stage, analyser, microphone stream or level-monitor loop
\* acquired by that attempt remains acquired.
C12_ConnectFailureClean ==
  [][ \A a \in Attempts :
        ConnectFails(a) =>
          /\ error' # "null"
          /\ ~isConnected'
          /\ NothingAcquired(a)
    ]_vars

\* the part of C12 that is about the error and the connected flag, for the
\* failures that reach the catch block
C12_ErrorShownAndIdle ==
  [][ \A a \in Attempts :
        (ConnectMic(a, FALSE) \/ ConnectClientFails(a)) =>
          (error' = "connect" /\ ~isConnected')
    ]_vars

\* C13: of the values handed to onerror, a configuration error sets the
\* configuration message, a transient internal fault sets no error and
\* leaves the session state as it was, and every other value sets the generic
\* connection-failure message.
C13_ErrorClassification ==
  [][ \A a \in Attempts, kind \in ErrorKinds :
        OnError(a, kind) =>
          CASE kind = "invalidArgument" -> error' = "configuration"
            [] kind = "internalError" ->
                 /\ error' = error
                 /\ isConnected' = isConnected
                 /\ session' = session
            [] OTHER -> error' = "generic"
    ]_vars

\* the classification of C13 for the values that are Error objects
C13_ErrorObjectsClassified ==
  [][ \A a \in Attempts, kind \in ErrorKinds \ {"notAnError"} :
        OnError(a, kind) =>
          CASE kind = "invalidArgument" -> error' = "configuration"
            [] kind = "internalError" ->
                 /\ error' = error
                 /\ isConnected' = isConnected
                 /\ session' = session
            [] OTHER -> error' = "generic"
    ]_vars

\* ========================================================= decode failure
\* C14: when the decode of a message's audio fails, no buffer of that message
\* is started or added to the active set, the session stays as it was, the
\* message's transcript events were applied when it arrived and its
\* interrupted flag is applied when the decode has failed; later messages are
\* handled as usual.
C14_DecodeFailureIsolated ==
  [][ /\ \A p \in pending :
           (~p.ok /\ DecodeDone(p)) =>
             /\ started' = started
             /\ p.id \notin sources'
             /\ isConnected' = isConnected
             /\ session' = session
             /\ error' = error
             /\ IF p.interrupted
                THEN /\ sources' = {}
                     /\ nextStartTime' = 0
                     /\ sources \subseteq stopped'
                ELSE /\ sources' = sources
                     /\ nextStartTime' = nextStartTime
      /\ \A a \in Attempts, i \in BOOLEAN :
           OnMessage(a, BadAudioMsg(i)) =>
             /\ transcripts' # transcripts
             /\ IsPrefix(transcripts, transcripts')
             /\ TextsOf(NewItems) = <<Trim(currentInputTrans \o <<"a">>)>>
             /\ currentInputTrans' = <<>>
             /\ isConnected' = isConnected
      /\ \A a \in Attempts :
           (session[a] = "open" /\ ~useBrowserTTS /\ audioContextRef # 0
            /\ outputAnalyserRef # 0 /\ nAudio < MaxAudio) =>
             ENABLED OnMessage(a, AudioMsg(1, TRUE, FALSE))
    ]_vars

\* C14 witness: the audio of the first message failed to decode, its user
\* item is in the list, and the buffer of the second message is playing in
\* the session, which is still connected.
C14_Witness ==
  /\ nAudio = 2
  /\ pending = {}
  /\ Len(started) = 1
  /\ started[1].id = 2
  /\ sources = {2}
  /\ Len(transcripts) >= 1
  /\ IsUserItem(transcripts[1])
  /\ isConnected
  /\ \E a \in Attempts : session[a] = "open"

\* ============================================================ interruption
\* C15: handling the interrupted flag changes neither accumulation buffer,
\* nor the detected-language tag, LastClientLanguage, the streaming texts or
\* the finalized list; it flushes the playback scheduler and, in fallback
\* speech mode only, cancels the synthesized speech.
C15_InterruptLeavesTranscripts ==
  [][ \A a \in Attempts :
        OnMessage(a, InterruptMsg) =>
          /\ UNCHANGED <<currentInputTrans, currentOutputTrans,
                         currentInputLanguage, lastClientLanguage,
                         streamingUserText, streamingModelText, transcripts>>
          /\ sources' = {}
          /\ nextStartTime' = 0
          /\ speechQueue' = IF useBrowserTTS THEN <<>> ELSE speechQueue
          /\ UNCHANGED <<isConnected, error, session, setvars>>
    ]_vars

\* C15 witness: an interruption was handled while a partial input text, its
\* language tag, a finalized item and a speak-request were held; the request
\* is gone, the rest is still there.
C15_Witness ==
  /\ flushed = "interrupt"
  /\ useBrowserTTS
  /\ speechQueue = <<>>
  /\ currentInputTrans = Word
  /\ streamingUserText = Word
  /\ currentInputLanguage = TagEsES
  /\ lastClientLanguage = TagEsES
  /\ Len(transcripts) = 1
  /\ IsModelItem(transcripts[1])

\* ======================================================== capture pipeline
\* the outbound session is ready: its promise is fulfilled and it is open
SessionIsReady ==
  /\ sessionPromiseRef # 0
  /\ promise[sessionPromiseRef] = "fulfilled"
  /\ session[sessionPromiseRef] = "open"

\* the outbound session is still being connected
SessionIsPending ==
  /\ sessionPromiseRef # 0
  /\ promise[sessionPromiseRef] = "pending"

\* after the step: chunks go out in capture order, and no dropped block
\* was sent
SentInOrderNeverDropped ==
  \A a \in Attempts :
    /\ \A i, j \in 1..Len(sent'[a]) : i < j => sent'[a][i] < sent'[a][j]
    /\ \A i \in 1..Len(sent'[a]) : sent'[a][i] \notin dropped'

\* the capture callback runs whatever the state of the session promise
CaptureNeverWaits ==
  \A a \in Attempts :
    (processor[a].state = "attached" /\ inCtxState[processor[a].ctx] = "running"
     /\ nBlocks < MaxBlocks) => ENABLED CaptureBlock(a)

C16_WitnessSent ==
  /\ SessionIsReady
  /\ sent[sessionPromiseRef] = <<1, 2>>
  /\ dropped = {}

\* ==================================================================== mute
\* C17: whenever the output gain stage exists, its gain is 0 exactly when
\* the mute flag is set, and 1 otherwise.
C17_MuteUniform ==
  outputGainRef # 0 =>
    gain[outputGainRef] = (IF isOutputMuted THEN 0 ELSE 1)

\* the toggle itself: with a gain stage in place it sets the gain to match the
\* new mute flag
C17_ToggleSetsGain ==
  [][ (toggleMute /\ outputGainRef # 0) =>
        gain'[outputGainRef] = (IF isOutputMuted' THEN 0 ELSE 1) ]_vars

\* ======================================================== streaming texts
\* C18: after every handled event the streaming user text equals the user
\* accumulation buffer and the streaming model text equals the model
\* accumulation buffer.
C18_StreamingMirrorsBuffers ==
  /\ streamingUserText = currentInputTrans
  /\ streamingModelText = currentOutputTrans

\* C18 witness: two partial input texts and a partial output text have been
\* handled; each streaming text shows the whole of its buffer.
C18_Witness ==
  /\ currentInputTrans = <<"a", "b">>
  /\ streamingUserText = <<"a", "b">>
  /\ currentOutputTrans = <<" ", "a">>
  /\ streamingModelText = <<" ", "a">>

\* ======================================== interruption and pending decodes
\* C19: no buffer of a message that arrived before an interruption is
\* started or added to the active set after the interruption was handled,
\* a buffer whose decode was pending at the interruption included.
C19_NoStartAcrossInterrupt ==
  /\ \A k \in 1..Len(started) : started[k].id \notin preInterrupt
  /\ sources \cap preInterrupt = {}

\* the active set is empty right after every step that handles an
\* interruption
C19_EmptyAtInterrupt ==
  [][ HandlesInterrupt => sources' = {} ]_vars

\* ============================================== buffers after turn-complete
\* C20: right after a turn-complete has been handled both accumulation
\* buffers are empty, whatever they held before, whitespace included.
C20_BuffersEmptyAfterTurn ==
  [][ \A a \in Attempts, m \in AccumMsgs :
        (m.turnComplete /\ OnMessage(a, m)) =>
          (currentInputTrans' = <<>> /\ currentOutputTrans' = <<>>)
    ]_vars

\* C20 for the content that is more than whitespace: a buffer whose trimmed
\* content is not empty is empty after the turn-complete
C20_NonBlankBuffersEmptied ==
  [][ \A a \in Attempts, m \in AccumMsgs :
        (m.turnComplete /\ OnMessage(a, m)) =>
          /\ Trim(currentInputTrans \o m.inText) # <<>> =>
               currentInputTrans' = <<>>
          /\ Trim(currentOutputTrans \o m.outText) # <<>> =>
               currentOutputTrans' = <<>>
          /\ Trim(currentInputTrans') = <<>>
          /\ Trim(currentOutputTrans') = <<>>
    ]_vars

\* ================================================ partial events without text
\* a partial-input or partial-output event that is not a turn-complete and
\* whose text fields are missing or empty
IsEmptyPartial(m) ==
  /\ m.hasIn \/ m.hasOut
  /\ m.inText = <<>> /\ m.outText = <<>>
  /\ ~m.turnComplete /\ ~m.interrupted /\ m.audio = 0

\* C21: a partial event whose text is missing or empty changes neither
\* accumulation buffer, nor the streaming texts, the turn's detected language
\* or the last client language, even if it carries a language tag.
C21_EmptyPartialIgnored ==
  [][ \A a \in Attempts, m \in LangMsgs :
        (IsEmptyPartial(m) /\ OnMessage(a, m)) =>
          UNCHANGED <<currentInputTrans, currentOutputTrans, streamingUserText,
                      streamingModelText, currentInputLanguage,
                      lastClientLanguage>>
    ]_vars

\* C21 for the texts alone: such an event changes neither buffer and neither
\* streaming text
C21_EmptyPartialKeepsTexts ==
  [][ \A a \in Attempts, m \in LangMsgs :
        (IsEmptyPartial(m) /\ OnMessage(a, m)) =>
          UNCHANGED <<currentInputTrans, currentOutputTrans, streamingUserText,
                      streamingModelText>>
    ]_vars

\* ================================================== callbacks after disconnect
\* the latest call of connectToGemini requested its session and a disconnect
\* has since run to its end; no later call of connectToGemini has begun
Disconnected ==
  /\ nConnects > 0
  /\ conn[nConnects].pc = "done"
  /\ sessionPromiseRef = 0
  /\ discPc = "idle"

\* C22: once disconnect has completed and until the next connect, no callback
\* has an effect: no transcript item is appended and no accumulation buffer
\* changes, no buffer is started, the cursor stays 0 and the active set
\* empty, and no capture chunk is sent.
C22_NoEffectsAfterDisconnect ==
  [][ Disconnected =>
        /\ transcripts' = transcripts
        /\ currentInputTrans' = currentInputTrans
        /\ currentOutputTrans' = currentOutputTrans
        /\ started' = started
        /\ nextStartTime' = 0
        /\ sources' = {}
        /\ sent' = sent
    ]_vars

\* after disconnect the capture processor produces no block
C22_NoCaptureAfterDisconnect ==
  [][ Disconnected => ~(\E a \in Attempts : CaptureBlock(a)) ]_vars

\* after disconnect a late message changes an accumulation buffer
C22_LateMessage ==
  Disconnected /\ currentInputTrans # <<>>

\* after disconnect a decode that was pending starts its buffer
C22_LateStart ==
  Disconnected /\ sources # {}

\* ============================================================ level monitor
\* the calls of connectToGemini whose updateVolume loop still has a frame
\* requested
MonitorLoops == {a \in Attempts : monitor[a] = "running"}

\* the session of the latest call of connectToGemini has stopped: by a
\* disconnect, by the channel closing, or by the call failing
StoppedByDisconnect == Disconnected
StoppedByClose == nConnects > 0 /\ session[nConnects] = "closed"
StoppedByFailure == nConnects > 0 /\ conn[nConnects].pc = "failed"

SessionStopped ==
  /\ discPc = "idle"
  /\ StoppedByDisconnect \/ StoppedByClose \/ StoppedByFailure

\* C23: at most one level-monitor loop is scheduled, and none once the session
\* has stopped, by disconnect, by onclose or by a failed connect attempt, also
\* after repeated connect attempts.
C23_MonitorNoLeak ==
  /\ Cardinality(MonitorLoops) <= 1
  /\ SessionStopped => MonitorLoops = {}

\* disconnect cancels the frame animationFrameRef holds, and only that one
C23_DisconnectCancelsFrame ==
  [][ DisconnectStart =>
        /\ animationFrameRef' = 0
        /\ \A a \in Attempts :
             monitor'[a] = IF a = animationFrameRef /\ monitor[a] = "running"
                           THEN "cancelled" ELSE monitor[a]
    ]_vars

\* the loop of a session that the channel closed is still scheduled
C23_LeakAfterClose == StoppedByClose /\ ~isConnected /\ MonitorLoops # {}

\* the loop of a connect attempt that failed is still scheduled
C23_LeakAfterFailure == StoppedByFailure /\ MonitorLoops # {}

\* two loops are scheduled
C23_TwoLoops == Cardinality(MonitorLoops) = 2

\* a loop is still scheduled after a disconnect ran to its end
C23_LeakAfterDisconnect ==
  StoppedByDisconnect /\ ~isConnected /\ MonitorLoops # {}
    /\ \A a \in Attempts : session[a] # "connecting"

\* ======================================================= configuration error
\* onerror has been handed an error classified as a configuration error
ConfigErrorSeen ==
  \E i \in 1..Len(errorLog) : errorLog[i] = "invalidArgument"

\* C24: after a channel error classified as a configuration error the
\* session is no longer streaming (it is idle): no further capture chunk is
\* sent and no further inbound audio is scheduled.
C24_ConfigErrorTerminal ==
  [][ /\ ConfigErrorSeen' => ~isConnected'
      /\ ConfigErrorSeen => (sent' = sent /\ started' = started /\ pending' \subseteq pending)
    ]_vars

\* what onerror does with a configuration error: it sets the message for it
\* and changes nothing else of the session
C24_ConfigErrorShown ==
  [][ \A a \in Attempts :
        OnError(a, "invalidArgument") =>
          /\ error' = "configuration"
          /\ UNCHANGED <<isConnected, session, promise, processor, streamState,
                         monitor, svars>>
    ]_vars

\* ============================================================ teardown order
MonitorStopped == MonitorLoops = {}

\* disconnect has dropped its reference to the session
ChannelDropped == sessionPromiseRef = 0

MicrophoneReleased ==
  /\ streamRef = 0 /\ processorRef = 0
  /\ \A a \in Attempts :
       streamState[a] # "live" /\ processor[a].state # "attached"

ContextsReleased ==
  \A a \in Attempts : inCtxState[a] # "running" /\ ctxState[a] # "running"

\* a disconnect is running or has run to its end
Disconnecting == discPc # "idle" \/ Disconnected

\* C25 as stated: disconnect releases the audio devices (stream, processor,
\* contexts) first, then the remote channel, and stops the level-monitor loop
\* last: the loop is never found stopped before the channel is released, nor
\* the channel released before the devices.
C25_DevicesChannelMonitor ==
  Disconnecting =>
    /\ MonitorStopped => ChannelDropped
    /\ ChannelDropped => (MicrophoneReleased /\ ContextsReleased)

\* C25 as the code has it: the step that begins a disconnect cancels the
\* monitor frame it holds and releases the stream and the processor; while a
\* context remains to be closed the reference to the channel is kept, and the
\* output context is not closed before the input context; the reference to
\* the channel is dropped in the step that ends the disconnect, after the
\* output context.
C25_MonitorFirstChannelLast ==
  [][ /\ DisconnectStart =>
           /\ animationFrameRef' = 0
           /\ animationFrameRef # 0 => monitor'[animationFrameRef] = "cancelled"
           /\ streamRef' = 0
           /\ streamRef # 0 => streamState'[streamRef] = "stopped"
           /\ processorRef' = 0
           /\ processorRef # 0 => processor'[processorRef].state = "detached"
      /\ (Disconnects /\ discPc' # "idle") =>
           sessionPromiseRef' = sessionPromiseRef
      /\ (Disconnects /\ discPc' = "closingInput") =>
           /\ inCtxState'[inputContextRef] = "closed"
           /\ ctxState' = ctxState
      /\ (Disconnects /\ discPc' = "closingOutput") =>
           /\ inputContextRef' = 0
           /\ ctxState'[audioContextRef] = "closed"
      /\ (Disconnects /\ discPc' = "idle") =>
           /\ sessionPromiseRef' = 0
           /\ audioContextRef' = 0
           /\ session' = session
    ]_vars

\* C25 witness: disconnect is suspended in the close of the output context
\* of a session whose monitor had ticked and whose processor was attached;
\* the loop is cancelled and the channel reference still held.
C25_Witness ==
  /\ discPc = "closingOutput"
  /\ \E a \in Attempts :
       /\ monitor[a] = "cancelled"
       /\ streamState[a] = "stopped"
       /\ processor[a].state = "detached"
       /\ sessionPromiseRef = a
       /\ sent[a] # <<>>
  /\ audioLevel > 0

\* ======================================================= single live session
\* the calls of connectToGemini of which a resource is still live
LiveStreams == {a \in Attempts : streamState[a] = "live"}
LiveContexts ==
  {a \in Attempts : inCtxState[a] = "running" \/ ctxState[a] = "running"}
LiveProcessors == {a \in Attempts : processor[a].state = "attached"}
LiveChannels == {a \in Attempts : session[a] \in {"connecting", "open"}}

\* every live resource is the one its ref holds
LiveResourcesHeld ==
  /\ \A a \in LiveStreams : streamRef = a
  /\ \A a \in LiveContexts :
       /\ inCtxState[a] = "running" => inputContextRef = a
       /\ ctxState[a] = "running" => audioContextRef = a
  /\ \A a \in LiveProcessors : processorRef = a
  /\ \A a \in LiveChannels : sessionPromiseRef = a

\* C26: at most one set of session resources (stream, pair of contexts,
\* processor, channel) is live, and no set stays acquired and unreachable
\* when connect is requested again, during a connect in progress or after the
\* channel closed without a disconnect.
C26_SingleLiveSession ==
  /\ Cardinality(LiveStreams) <= 1
  /\ Cardinality(LiveContexts) <= 1
  /\ Cardinality(LiveProcessors) <= 1
  /\ Cardinality(LiveChannels) <= 1
  /\ LiveResourcesHeld

\* the button offers connect only while isConnected is false, and disconnect
\* only while it is true
C26_ButtonExclusive ==
  [][ /\ ConnectStartWithin(MaxAttempts) => ~isConnected
      /\ DisconnectStart => isConnected
    ]_vars

\* a second connect during a connect in progress: two channels are being
\* opened and two microphone streams are live
C26_TwoConnecting ==
  /\ Cardinality({a \in Attempts : session[a] = "connecting"}) = 2
  /\ Cardinality(LiveStreams) = 2

\* a connect after the channel closed without a disconnect: the contexts and
\* the stream of the closed session are still live beside the new ones
C26_LeakedByReconnect ==
  \E a \in Attempts :
    /\ session[a] = "closed"
    /\ streamState[a] = "live" /\ streamRef # a
    /\ ctxState[a] = "running" /\ audioContextRef # 0 /\ audioContextRef # a
    /\ processor[a].state = "attached"

\* ========================================================== item identifiers
\* C27: the ids of the items of the finalized list are pairwise distinct,
\* also when two turn-complete events are handled at the same clock reading.
C27_FreshIds ==
  \A i, j \in 1..Len(transcripts) :
    i # j => transcripts[i].id # transcripts[j].id

\* two items share an id only if they have the same source and were
\* finalized at the same clock reading
C27_FreshAcrossClock ==
  \A i, j \in 1..Len(transcripts) :
    (i # j /\ transcripts[i].id = transcripts[j].id) =>
      /\ transcripts[i].source = transcripts[j].source
      /\ transcripts[i].timestamp = transcripts[j].timestamp

\* two user items finalized by two turn-completes at one clock reading
C27_SameClockTwice ==
  /\ Len(transcripts) = 2
  /\ IsUserItem(transcripts[1]) /\ IsUserItem(transcripts[2])
  /\ transcripts[1].id = transcripts[2].id
  /\ dateNow = MaxDate

\* ================================================== language of a user item
\* the tag of the latest partial-input event that carried a tag in the turn
\* that message m ends, m included; Undefined when none carried a tag
OwnTag(m) ==
  IF m.hasIn /\ m.inLang # Undefined THEN m.inLang ELSE turnLanguage

\* C28: the language of a finalized user item is the tag of the latest tagged
\* partial-input event since the previous turn-complete, absent when there was
\* none; a tag of an earlier turn neither appears on a later turn's item nor
\* decides a later turn's speech direction.
C28_LanguageOfOwnTurn ==
  [][ \A a \in Attempts, m \in LangMsgs :
        (m.turnComplete /\ OnMessage(a, m)) =>
          /\ \A k \in (Len(transcripts) + 1)..Len(transcripts') :
               IsUserItem(transcripts'[k]) =>
                 transcripts'[k].language = OwnTag(m)
          /\ Len(speechQueue') > Len(speechQueue) =>
               speechQueue'[Len(speechQueue')].lang =
                 SpeakLang(IsFrenchOutput(OwnTag(m)), targetLanguage,
                           lastClientLanguage')
    ]_vars

\* C28 for the turns that emit a user item: after such a turn-complete the
\* detected tag is cleared, and an item carries the tag the ref held
C28_ClearedWithUserItem ==
  [][ \A a \in Attempts, m \in LangMsgs :
        (m.turnComplete /\ OnMessage(a, m)) =>
          /\ Len(transcripts') > Len(transcripts)
               /\ IsUserItem(transcripts'[Len(transcripts) + 1]) =>
                 currentInputLanguage' = Undefined
          /\ \A k \in (Len(transcripts) + 1)..Len(transcripts') :
               IsUserItem(transcripts'[k]) =>
                 transcripts'[k].language =
                   NoteInputLanguage(currentInputLanguage, m.inLang)
    ]_vars

\* a tag is still held after the turn-complete of the turn that carried it
C28_TagOutlivesTurn ==
  turnLanguage = Undefined /\ currentInputLanguage # Undefined
    /\ currentInputTrans = <<>> /\ discPc = "idle" /\ isConnected

\* ============================================================== voice paths
\* the audio messages of the current turn whose buffer has been started
TurnStarted ==
  {id \in turnAudio : \E k \in 1..Len(started) : started[k].id = id}

\* a step that hands an utterance to the speech synthesizer
SpeaksText == Len(speechQueue') > Len(speechQueue)

\* C29: no turn has both an inbound audio buffer scheduled for playback and a
\* fallback speak-request issued at its turn-complete, whenever the
\* fallback-speech setting is toggled.
C29_OneVoicePath ==
  [][ SpeaksText => TurnStarted = {} ]_vars

\* at any one moment a message takes one path only: the step that issues a
\* speak-request accepts no audio, and audio is accepted only while the
\* fallback-speech setting is off
C29_OnePathPerMessage ==
  [][ /\ SpeaksText => (useBrowserTTS /\ pending' \subseteq pending)
      /\ ~(pending' \subseteq pending) => ~useBrowserTTS
    ]_vars

\* ======================================================= level monitor tick
\* min(1, max(inputEnergy, outputEnergy * 1.2)) in units of 1 / LevelOne, the
\* energies being inAvg / ByteMax and outAvg / ByteMax
ClaimedLevel(inAvg, outAvg) ==
  LET level == IF 10 * inAvg >= 12 * outAvg THEN 10 * inAvg ELSE 12 * outAvg
  IN IF level > LevelOne THEN LevelOne ELSE level

\* C30: a tick of the level monitor sets the level to
\* min(1, max(inputEnergy, outputEnergy * 1.2)), the energies being within
\* [0,1], so the level is within [0,1] in every reachable state; besides the
\* level (and the request of the loop's next frame) the tick changes nothing:
\* no capture, playback-scheduler or transcript state.
C30_TickObservational ==
  /\ [](audioLevel \in 0..LevelOne)
  /\ [][ \A a \in Attempts, i \in Averages, o \in Averages :
           MonitorTick(a, i, o) =>
             /\ i \in 0..ByteMax /\ o \in 0..ByteMax
             /\ audioLevel' = ClaimedLevel(i, o)
             /\ UNCHANGED <<tvars, speechQueue, setvars, svars, refvars,
                            objvars, isConnected, error, conn, discPc,
                            inputAnalyserRef, streamRef, processorRef,
                            streamState, processor, monitor, promise, queued,
                            sent, nBlocks, dropped>>
       ]_vars

\* C30 witness: with a session streaming (processor attached, a chunk sent)
\* a tick has set the level from the output energy, 1.2 times 128 / 255
C30_Witness ==
  /\ audioLevel = 12 * 128
  /\ \E a \in Attempts :
       /\ monitor[a] = "running"
       /\ animationFrameRef = a
       /\ processor[a].state = "attached"
       /\ sent[a] # <<>>

\* a tick has set the level to 1, the cap
C30_WitnessCapped ==
  audioLevel = LevelOne /\ isConnected

====
